---- MODULE Spec2Model ----
(***************************************************************************)
(* The editing engine of zepto (src/src/main.rs): struct Editor, its       *)
(* buffer, cursor, selection, clipboard, viewport and the modal dispatch   *)
(* of handle_key_input, driven by the loop of Editor::run.                 *)
(*                                                                         *)
(* A String is modelled as the sequence of its UTF-8 bytes: "a" and " "    *)
(* are one-byte characters, <<"E1","E2">> is one two-byte alphanumeric     *)
(* character (lead byte, continuation byte), "\n" is the line feed and     *)
(* "\r" the carriage return.  Rows and columns are 0-based as in the       *)
(* source; a TLA+ sequence is 1-based, so line y is buffer[y + 1].         *)
(***************************************************************************)
EXTENDS Integers, Sequences, FiniteSets, TLC

VARIABLES
    buffer,                 \* Vec<String>
    cursor_x, cursor_y,     \* usize, a byte offset and a row
    scroll_x, scroll_y,     \* usize
    original_buffer_hash,   \* u64, abstracted (see hash_buffer)
    filename,               \* Option<String>: <<>> or <<name>>
    application_mode,       \* "Editing" | "Help" | "PromptSave"
    input_mode,             \* "Normal" | "Insert"
    vim_enabled,            \* bool
    status_message,         \* <<text, number formatted into it>>
    prompt_message,         \* String
    clipboard,              \* String
    selection_start,        \* Option<(row, col)>: <<>> or <<row, col>>
    selection_end,          \* Option<(row, col)>
    pc,                     \* position of Editor::run
    keys_handled            \* the number of key events run has handled

vars == <<buffer, cursor_x, cursor_y, scroll_x, scroll_y, original_buffer_hash,
          filename, application_mode, input_mode, vim_enabled, status_message,
          prompt_message, clipboard, selection_start, selection_end, pc,
          keys_handled>>

----------------------------------------------------------------------------
(* Bounds of the model *)

\* a run handles at most MaxKeys key events
MaxKeys == 3
\* a file given on the command line holds at most MaxTextLen bytes
MaxTextLen == 2
\* a buffer the clipboard operations are applied to has at most MaxRows lines
MaxRows == 3
\* a file whose load and save are compared holds at most MaxFileLen bytes
MaxFileLen == 3
\* a line of a buffer the viewport is normalized on has at most MaxCols bytes
MaxCols == 2
\* a line the movement and editing keys are applied to has at most MaxLineChars
\* characters
MaxLineChars == 3

----------------------------------------------------------------------------
(* Strings *)

None == <<>>

Min(a, b) == IF a < b THEN a ELSE b
Max(a, b) == IF a > b THEN a ELSE b
\* usize::saturating_sub
SatSub(a, b) == IF a > b THEN a - b ELSE 0

\* a UTF-8 continuation byte
IsCont(b) == b = "E2"

\* str::is_char_boundary
IsCharBoundary(s, i) ==
    \/ i = 0
    \/ i = Len(s)
    \/ (0 < i /\ i < Len(s) /\ ~IsCont(s[i + 1]))

\* the indexing s[a..b] of a str: panics unless a <= b <= len on boundaries
SliceOk(s, a, b) == a <= b /\ b <= Len(s) /\ IsCharBoundary(s, a) /\ IsCharBoundary(s, b)
Slice(s, a, b) == SubSeq(s, a + 1, b)

\* str::chars().collect(): one entry per character, named by its lead byte
Chars(s) == SelectSeq(s, LAMBDA b : ~IsCont(b))

\* char::is_alphanumeric
IsAlphanumeric(c) == c \in {"a", "E1"}

\* the number of bytes of the character starting at byte offset i of s
CharWidthAt(s, i) == IF i + 2 <= Len(s) /\ IsCont(s[i + 2]) THEN 2 ELSE 1

\* the UTF-8 bytes of a typed character
CharBytes(c) == IF c = "E" THEN <<"E1", "E2">> ELSE <<c>>

RECURSIVE Concat(_)
Concat(ss) == IF ss = <<>> THEN <<>> ELSE Head(ss) \o Concat(Tail(ss))

\* [String]::join("\n")
RECURSIVE Join(_)
Join(ls) ==
    IF ls = <<>> THEN <<>>
    ELSE IF Len(ls) = 1 THEN ls[1]
    ELSE ls[1] \o <<"\n">> \o Join(Tail(ls))

\* str::split('\n'): always at least one piece
RECURSIVE Split(_)
Split(t) ==
    IF \A i \in 1..Len(t) : t[i] # "\n" THEN <<t>>
    ELSE LET i == CHOOSE j \in 1..Len(t) : t[j] = "\n" /\ \A k \in 1..(j - 1) : t[k] # "\n"
         IN  <<SubSeq(t, 1, i - 1)>> \o Split(SubSeq(t, i + 1, Len(t)))

\* one line of str::lines(): a trailing "\r" left by "\r\n" is stripped
StripCR(l) == IF l # <<>> /\ l[Len(l)] = "\r" THEN SubSeq(l, 1, Len(l) - 1) ELSE l

\* str::lines(): the text is cut after every "\n" (split_inclusive), so a final
\* "\n" ends the last line and opens no new one; each line loses its "\n" or "\r\n"
RECURSIVE Lines(_)
Lines(t) ==
    IF t = <<>> THEN <<>>
    ELSE IF \A i \in 1..Len(t) : t[i] # "\n" THEN <<t>>
    ELSE LET i == CHOOSE j \in 1..Len(t) : t[j] = "\n" /\ \A k \in 1..(j - 1) : t[k] # "\n"
         IN  <<StripCR(SubSeq(t, 1, i - 1))>> \o Lines(SubSeq(t, i + 1, Len(t)))

\* DefaultHasher fed each line's bytes and then 0xFF (impl Hash for str).  The
\* 64-bit SipHash of that stream is abstracted by the stream itself: two buffers
\* hash alike exactly when they are equal (collisions are not modelled).
RECURSIVE hash_buffer(_)
hash_buffer(ls) == IF ls = <<>> THEN <<>> ELSE Head(ls) \o <<"FF">> \o hash_buffer(Tail(ls))

----------------------------------------------------------------------------
(* The Editor as a value.  Every method below maps an Editor to the Editor it  *)
(* leaves; "panicked" records that the method aborted the process (an index    *)
(* out of bounds, a byte offset that is no character boundary), and "ret" is   *)
(* the bool a key handler returns.                                             *)

Self ==
    [buffer |-> buffer, cursor_x |-> cursor_x, cursor_y |-> cursor_y,
     scroll_x |-> scroll_x, scroll_y |-> scroll_y,
     original_buffer_hash |-> original_buffer_hash, filename |-> filename,
     application_mode |-> application_mode, input_mode |-> input_mode,
     vim_enabled |-> vim_enabled, status_message |-> status_message,
     prompt_message |-> prompt_message, clipboard |-> clipboard,
     selection_start |-> selection_start, selection_end |-> selection_end,
     panicked |-> FALSE, ret |-> FALSE]

Panic(e) == [e EXCEPT !.panicked = TRUE]
Return(e, b) == [e EXCEPT !.ret = b]

\* self.buffer[y]
Line(e, y) == e.buffer[y + 1]
InBuffer(e, y) == 0 <= y /\ y < Len(e.buffer)

Msg(text) == <<text, 0>>
NormalStatus == Msg("-- NORMAL --")
InsertStatus == Msg("-- INSERT --")
HelpStatus == Msg("-- HELP --")
NanoStatus == Msg("Ctrl+X Exit | Ctrl+W Save | Ctrl+H Help")

\* new_with_backend starting in Normal whatever the flag is
new_with_backend_StartsNormal(vim) ==
    [buffer |-> <<<<>>>>, cursor_x |-> 0, cursor_y |-> 0, scroll_x |-> 0, scroll_y |-> 0,
     original_buffer_hash |-> hash_buffer(<<<<>>>>), filename |-> None,
     application_mode |-> "Editing",
     input_mode |-> "Normal",
     vim_enabled |-> vim,
     status_message |-> IF vim THEN NormalStatus ELSE NanoStatus,
     prompt_message |-> "", clipboard |-> <<>>,
     selection_start |-> None, selection_end |-> None,
     panicked |-> FALSE, ret |-> FALSE]

new_with_backend(vim) ==
    [buffer |-> <<<<>>>>, cursor_x |-> 0, cursor_y |-> 0, scroll_x |-> 0, scroll_y |-> 0,
     original_buffer_hash |-> hash_buffer(<<<<>>>>), filename |-> None,
     application_mode |-> "Editing",
     input_mode |-> IF vim THEN "Normal" ELSE "Insert",
     vim_enabled |-> vim,
     status_message |-> IF vim THEN NormalStatus ELSE NanoStatus,
     prompt_message |-> "", clipboard |-> <<>>,
     selection_start |-> None, selection_end |-> None,
     panicked |-> FALSE, ret |-> FALSE]

\* is_dirty comparing with the hash of the empty buffer instead of the baseline
is_dirty_AgainstEmpty(e) == hash_buffer(e.buffer) # hash_buffer(<<<<>>>>)

is_dirty(e) == hash_buffer(e.buffer) # e.original_buffer_hash

clear_selection(e) == [e EXCEPT !.selection_start = None, !.selection_end = None]

\* open_file without the push of an empty line into an empty buffer
open_file_KeepsNoLine(e, path, content) ==
    clear_selection(
      [e EXCEPT !.buffer = Lines(content),
                !.filename = <<path>>,
                !.original_buffer_hash = hash_buffer(Lines(content)),
                !.status_message = IF ~e.vim_enabled THEN Msg("Opened: f") ELSE @,
                !.cursor_x = 0, !.cursor_y = 0, !.scroll_x = 0, !.scroll_y = 0])

\* open_file taking the baseline before the push of an empty line
open_file_HashBeforePush(e, path, content) ==
    LET ls == Lines(content)
        b  == IF ls = <<>> THEN <<<<>>>> ELSE ls
    IN  clear_selection(
          [e EXCEPT !.buffer = b,
                    !.filename = <<path>>,
                    !.original_buffer_hash = hash_buffer(ls),
                    !.status_message = IF ~e.vim_enabled THEN Msg("Opened: f") ELSE @,
                    !.cursor_x = 0, !.cursor_y = 0, !.scroll_x = 0, !.scroll_y = 0])

\* open_file once fs::read_to_string has returned Ok(content)
open_file(e, path, content) ==
    LET ls == Lines(content)
        b  == IF ls = <<>> THEN <<<<>>>> ELSE ls
    IN  clear_selection(
          [e EXCEPT !.buffer = b,
                    !.filename = <<path>>,
                    !.original_buffer_hash = hash_buffer(b),
                    !.status_message = IF ~e.vim_enabled THEN Msg("Opened: f") ELSE @,
                    !.cursor_x = 0, !.cursor_y = 0, !.scroll_x = 0, !.scroll_y = 0])

\* save_file taking the baseline before fs::write has succeeded
save_file_HashBeforeWrite(e, write_ok) ==
    IF e.filename # None
    THEN IF write_ok
         THEN Return([e EXCEPT !.original_buffer_hash = hash_buffer(e.buffer),
                               !.status_message = <<"Saved {} lines to f", Len(e.buffer)>>],
                     TRUE)
         ELSE Return([e EXCEPT !.original_buffer_hash = hash_buffer(e.buffer)], FALSE)
    ELSE Return([e EXCEPT !.status_message = Msg("No filename. Cannot save. (Implement :w <filename>)")],
                FALSE)

\* save_file: "ret" is whether it returned Ok; write_ok is the outcome of fs::write
save_file(e, write_ok) ==
    IF e.filename # None
    THEN IF write_ok
         THEN Return([e EXCEPT !.original_buffer_hash = hash_buffer(e.buffer),
                               !.status_message = <<"Saved {} lines to f", Len(e.buffer)>>],
                     TRUE)
         ELSE Return(e, FALSE)
    ELSE Return([e EXCEPT !.status_message = Msg("No filename. Cannot save. (Implement :w <filename>)")],
                FALSE)

\* the text of the io::Error save_file returned
SaveError(e) == IF e.filename # None THEN Msg("Error saving: <os error>")
                ELSE Msg("Error saving: other error")

LexLeq(p, q) == p[1] < q[1] \/ (p[1] = q[1] /\ p[2] <= q[2])

\* get_normalized_selection comparing the rows only
get_normalized_selection_RowsOnly(e) ==
    IF e.selection_start # None /\ e.selection_end # None
    THEN IF e.selection_start[1] <= e.selection_end[1]
         THEN <<e.selection_start, e.selection_end>>
         ELSE <<e.selection_end, e.selection_start>>
    ELSE None

\* <<>> or <<start, end>>
get_normalized_selection(e) ==
    IF e.selection_start # None /\ e.selection_end # None
    THEN IF LexLeq(e.selection_start, e.selection_end)
         THEN <<e.selection_start, e.selection_end>>
         ELSE <<e.selection_end, e.selection_start>>
    ELSE None

\* editor_content_area is [width, height]; config.main_section.line_numbers
line_numbers_enabled == TRUE
gutter_width == 5

EffectiveWidth(area) ==
    SatSub(SatSub(area.width, 2), IF line_numbers_enabled THEN gutter_width + 1 ELSE 0)
VisibleHeight(area) == SatSub(area.height, 2)

\* ensure_cursor_in_view scrolling down one row short of the cursor
ensure_cursor_in_view_ScrollsOneShort(e, area) ==
    LET effective_width == EffectiveWidth(area)
        visible_height  == VisibleHeight(area)
        sy1 == IF e.cursor_y < e.scroll_y THEN e.cursor_y
               ELSE IF e.cursor_y >= e.scroll_y + visible_height
                    THEN e.cursor_y - visible_height
                    ELSE e.scroll_y
        sx1 == IF e.cursor_x < e.scroll_x THEN e.cursor_x
               ELSE IF e.cursor_x >= e.scroll_x + effective_width
                    THEN e.cursor_x - effective_width + 1
                    ELSE e.scroll_x
        sy2 == Min(sy1, Max(SatSub(Len(e.buffer), 1), 0))
    IN  IF e.panicked THEN e
        ELSE IF e.cursor_y < Len(e.buffer)
        THEN [e EXCEPT !.scroll_y = sy2,
                       !.scroll_x = Min(sx1, Max(SatSub(Len(Line(e, e.cursor_y)), effective_width), 0)),
                       !.cursor_x = Min(e.cursor_x, Len(Line(e, e.cursor_y)))]
        ELSE Panic([e EXCEPT !.scroll_y = sy2, !.scroll_x = 0])

ensure_cursor_in_view(e, area) ==
    LET effective_width == EffectiveWidth(area)
        visible_height  == VisibleHeight(area)
        sy1 == IF e.cursor_y < e.scroll_y THEN e.cursor_y
               ELSE IF e.cursor_y >= e.scroll_y + visible_height
                    THEN e.cursor_y - visible_height + 1
                    ELSE e.scroll_y
        sx1 == IF e.cursor_x < e.scroll_x THEN e.cursor_x
               ELSE IF e.cursor_x >= e.scroll_x + effective_width
                    THEN e.cursor_x - effective_width + 1
                    ELSE e.scroll_x
        sy2 == Min(sy1, Max(SatSub(Len(e.buffer), 1), 0))
    IN  IF e.panicked THEN e
        ELSE IF e.cursor_y < Len(e.buffer)
        THEN [e EXCEPT !.scroll_y = sy2,
                       !.scroll_x = Min(sx1, Max(SatSub(Len(Line(e, e.cursor_y)), effective_width), 0)),
                       !.cursor_x = Min(e.cursor_x, Len(Line(e, e.cursor_y)))]
        ELSE Panic([e EXCEPT !.scroll_y = sy2, !.scroll_x = 0])

\* delete_selected_text splicing start_row..end_row, which leaves line end_row
delete_selected_text_KeepsEndRow(e, area) ==
    LET sel == get_normalized_selection(e) IN
    IF e.panicked \/ sel = None THEN e
    ELSE LET start_row == sel[1][1]
             start_col == sel[1][2]
             end_row   == sel[2][1]
             end_col   == sel[2][2]
         IN  IF ~InBuffer(e, start_row) \/ ~InBuffer(e, end_row) THEN Panic(e)
             ELSE IF start_row = end_row
             THEN IF ~SliceOk(Line(e, start_row), start_col, end_col) THEN Panic(e)
                  ELSE ensure_cursor_in_view(clear_selection(
                         [e EXCEPT !.buffer[start_row + 1] =
                                       Slice(@, 0, start_col) \o Slice(@, end_col, Len(@)),
                                   !.cursor_y = start_row, !.cursor_x = start_col]), area)
             ELSE IF \/ ~SliceOk(Line(e, start_row), 0, start_col)
                     \/ ~SliceOk(Line(e, end_row), end_col, Len(Line(e, end_row)))
                  THEN Panic(e)
                  ELSE LET new_line == Slice(Line(e, start_row), 0, start_col)
                                       \o Slice(Line(e, end_row), end_col, Len(Line(e, end_row)))
                       IN  ensure_cursor_in_view(clear_selection(
                             [e EXCEPT !.buffer = SubSeq(@, 1, start_row) \o <<new_line>>
                                                  \o SubSeq(@, end_row + 1, Len(@)),
                                       !.cursor_y = start_row, !.cursor_x = start_col]), area)

delete_selected_text(e, area) ==
    LET sel == get_normalized_selection(e) IN
    IF e.panicked \/ sel = None THEN e
    ELSE LET start_row == sel[1][1]
             start_col == sel[1][2]
             end_row   == sel[2][1]
             end_col   == sel[2][2]
         IN  IF ~InBuffer(e, start_row) \/ ~InBuffer(e, end_row) THEN Panic(e)
             ELSE IF start_row = end_row
             THEN IF ~SliceOk(Line(e, start_row), start_col, end_col) THEN Panic(e)
                  ELSE ensure_cursor_in_view(clear_selection(
                         [e EXCEPT !.buffer[start_row + 1] =
                                       Slice(@, 0, start_col) \o Slice(@, end_col, Len(@)),
                                   !.cursor_y = start_row, !.cursor_x = start_col]), area)
             ELSE IF \/ ~SliceOk(Line(e, start_row), 0, start_col)
                     \/ ~SliceOk(Line(e, end_row), end_col, Len(Line(e, end_row)))
                  THEN Panic(e)
                  ELSE LET new_line == Slice(Line(e, start_row), 0, start_col)
                                       \o Slice(Line(e, end_row), end_col, Len(Line(e, end_row)))
                       IN  ensure_cursor_in_view(clear_selection(
                             [e EXCEPT !.buffer = SubSeq(@, 1, start_row) \o <<new_line>>
                                                  \o SubSeq(@, end_row + 2, Len(@)),
                                       !.cursor_y = start_row, !.cursor_x = start_col]), area)

update_selection_on_move(e, shift_pressed) ==
    IF shift_pressed
    THEN [e EXCEPT !.selection_start = IF @ = None THEN <<e.cursor_y, e.cursor_x>> ELSE @,
                   !.selection_end = <<e.cursor_y, e.cursor_x>>]
    ELSE clear_selection(e)

----------------------------------------------------------------------------
(* Cursor movement *)

\* move_cursor_left crossing to column 0 of the previous line
move_cursor_left_ToLineStart(e, area, shift_pressed) ==
    LET m == IF e.cursor_x > 0 THEN [e EXCEPT !.cursor_x = @ - 1]
             ELSE IF e.cursor_y > 0
                  THEN [e EXCEPT !.cursor_y = @ - 1, !.cursor_x = 0]
                  ELSE e
    IN  ensure_cursor_in_view(update_selection_on_move(m, shift_pressed), area)

move_cursor_left(e, area, shift_pressed) ==
    LET m == IF e.cursor_x > 0 THEN [e EXCEPT !.cursor_x = @ - 1]
             ELSE IF e.cursor_y > 0
                  THEN [e EXCEPT !.cursor_y = @ - 1, !.cursor_x = Len(Line(e, e.cursor_y - 1))]
                  ELSE e
    IN  ensure_cursor_in_view(update_selection_on_move(m, shift_pressed), area)

move_cursor_right(e, area, shift_pressed) ==
    LET m == IF e.cursor_x < Len(Line(e, e.cursor_y)) THEN [e EXCEPT !.cursor_x = @ + 1]
             ELSE IF e.cursor_y < Len(e.buffer) - 1
                  THEN [e EXCEPT !.cursor_y = @ + 1, !.cursor_x = 0]
                  ELSE e
    IN  IF ~InBuffer(e, e.cursor_y) THEN Panic(e)
        ELSE ensure_cursor_in_view(update_selection_on_move(m, shift_pressed), area)

move_cursor_up(e, area, shift_pressed) ==
    LET m == IF e.cursor_y > 0
             THEN [e EXCEPT !.cursor_y = @ - 1,
                            !.cursor_x = Min(@, Len(Line(e, e.cursor_y - 1)))]
             ELSE e
    IN  ensure_cursor_in_view(update_selection_on_move(m, shift_pressed), area)

move_cursor_down(e, area, shift_pressed) ==
    LET m == IF e.cursor_y < Len(e.buffer) - 1
             THEN [e EXCEPT !.cursor_y = @ + 1,
                            !.cursor_x = Min(@, Len(Line(e, e.cursor_y + 1)))]
             ELSE e
    IN  ensure_cursor_in_view(update_selection_on_move(m, shift_pressed), area)

\* while x > 0 && (chars[x - 1].is_alphanumeric() == alnum) { x -= 1 }
\* -1 when chars[x - 1] is out of bounds
RECURSIVE SkipLeft(_, _, _)
SkipLeft(chars, x, alnum) ==
    IF x > 0
    THEN IF x > Len(chars) THEN -1
         ELSE IF IsAlphanumeric(chars[x]) = alnum THEN SkipLeft(chars, x - 1, alnum)
         ELSE x
    ELSE x

\* while x < chars.len() && (chars[x].is_alphanumeric() == alnum) { x += 1 }
RECURSIVE SkipRight(_, _, _)
SkipRight(chars, x, alnum) ==
    IF x < Len(chars) /\ IsAlphanumeric(chars[x + 1]) = alnum
    THEN SkipRight(chars, x + 1, alnum)
    ELSE x

move_cursor_word_left(e, area, shift_pressed) ==
    LET m == IF e.cursor_x = 0
             THEN [e EXCEPT !.cursor_y = @ - 1, !.cursor_x = Len(Line(e, e.cursor_y - 1))]
             ELSE e
        chars == Chars(Line(m, m.cursor_y))
        x1 == SkipLeft(chars, m.cursor_x, FALSE)
        x2 == SkipLeft(chars, x1, TRUE)
    IN  IF e.cursor_x = 0 /\ e.cursor_y = 0 THEN e
        ELSE IF ~InBuffer(m, m.cursor_y) \/ x1 = -1 \/ x2 = -1 THEN Panic(e)
        ELSE ensure_cursor_in_view(
               update_selection_on_move([m EXCEPT !.cursor_x = x2], shift_pressed), area)

move_cursor_word_right_AlwaysSecondSkip(e, area, shift_pressed) ==
    LET at_end == e.cursor_x = Len(Line(e, e.cursor_y))
        m == IF at_end THEN [e EXCEPT !.cursor_y = @ + 1, !.cursor_x = 0] ELSE e
        chars == Chars(Line(m, m.cursor_y))
        original_cursor_x == m.cursor_x
        x1 == SkipRight(chars, original_cursor_x, TRUE)
        x2 == SkipRight(chars, x1, FALSE)
        x3 == SkipRight(chars, SkipRight(chars, x2, TRUE), FALSE)
    IN  IF ~InBuffer(e, e.cursor_y) THEN Panic(e)
        ELSE IF at_end /\ ~(e.cursor_y < Len(e.buffer) - 1) THEN e
        ELSE ensure_cursor_in_view(
               update_selection_on_move([m EXCEPT !.cursor_x = x3], shift_pressed), area)

move_cursor_word_right(e, area, shift_pressed) ==
    LET at_end == e.cursor_x = Len(Line(e, e.cursor_y))
        m == IF at_end THEN [e EXCEPT !.cursor_y = @ + 1, !.cursor_x = 0] ELSE e
        chars == Chars(Line(m, m.cursor_y))
        original_cursor_x == m.cursor_x
        x1 == SkipRight(chars, original_cursor_x, TRUE)
        x2 == SkipRight(chars, x1, FALSE)
        x3 == IF original_cursor_x = x2 /\ x2 < Len(chars)
                 /\ IsAlphanumeric(chars[original_cursor_x + 1])
              THEN SkipRight(chars, SkipRight(chars, x2, TRUE), FALSE)
              ELSE x2
    IN  IF ~InBuffer(e, e.cursor_y) THEN Panic(e)
        ELSE IF at_end /\ ~(e.cursor_y < Len(e.buffer) - 1) THEN e
        ELSE ensure_cursor_in_view(
               update_selection_on_move([m EXCEPT !.cursor_x = x3], shift_pressed), area)

----------------------------------------------------------------------------
(* Clipboard *)

\* whether get_selected_text returns (it panics on a slice outside a line)
SelectedTextOk(e) ==
    LET sel == get_normalized_selection(e) IN
    \/ sel = None
    \/ /\ InBuffer(e, sel[1][1]) /\ InBuffer(e, sel[2][1])
       /\ IF sel[1][1] = sel[2][1]
          THEN SliceOk(Line(e, sel[1][1]), sel[1][2], sel[2][2])
          ELSE /\ SliceOk(Line(e, sel[1][1]), sel[1][2], Len(Line(e, sel[1][1])))
               /\ SliceOk(Line(e, sel[2][1]), 0, sel[2][2])

\* get_selected_text without the lines between the first and the last row
get_selected_text_DropsInterior(e) ==
    LET sel == get_normalized_selection(e)
        start_row == sel[1][1]
        start_col == sel[1][2]
        end_row   == sel[2][1]
        end_col   == sel[2][2]
    IN  IF start_row = end_row
        THEN Slice(Line(e, start_row), start_col, end_col)
        ELSE Slice(Line(e, start_row), start_col, Len(Line(e, start_row)))
             \o <<"\n">> \o Slice(Line(e, end_row), 0, end_col)

\* the text of Some(text); the selection is active and SelectedTextOk
get_selected_text(e) ==
    LET sel == get_normalized_selection(e)
        start_row == sel[1][1]
        start_col == sel[1][2]
        end_row   == sel[2][1]
        end_col   == sel[2][2]
    IN  IF start_row = end_row
        THEN Slice(Line(e, start_row), start_col, end_col)
        ELSE Slice(Line(e, start_row), start_col, Len(Line(e, start_row)))
             \o Concat([i \in 1..(end_row - start_row - 1) |->
                            <<"\n">> \o Line(e, start_row + i)])
             \o <<"\n">> \o Slice(Line(e, end_row), 0, end_col)

\* r with the status message msg, unless the operation that left r panicked
WithStatus(r, msg) == IF r.panicked THEN r ELSE [r EXCEPT !.status_message = msg]

copy_selection(e) ==
    IF ~SelectedTextOk(e) THEN Panic(e)
    ELSE IF get_normalized_selection(e) # None
    THEN LET text == get_selected_text(e)
         IN  [e EXCEPT !.clipboard = text,
                       !.status_message = <<"Copied {} characters.", Len(text)>>]
    ELSE [e EXCEPT !.status_message = Msg("No selection to copy.")]

cut_selection(e, area) ==
    IF ~SelectedTextOk(e) THEN Panic(e)
    ELSE IF get_normalized_selection(e) # None
    THEN LET text == get_selected_text(e)
         IN  WithStatus(delete_selected_text([e EXCEPT !.clipboard = text], area),
                        <<"Cut {} characters.", Len(text)>>)
    ELSE [e EXCEPT !.status_message = Msg("No selection to cut.")]

\* insert_text_at_cursor after its delete_selected_text, which left d
InsertLines(d, text, area) ==
    LET lines == Split(text)
        n == Len(lines)
        cur == Line(d, d.cursor_y)
        prefix == Slice(cur, 0, d.cursor_x)
        remaining_line == Slice(cur, d.cursor_x, Len(cur))
        rows == IF n > 1
                THEN <<prefix \o lines[1]>> \o SubSeq(lines, 2, n - 1)
                     \o <<lines[n] \o remaining_line>>
                ELSE <<prefix \o lines[1] \o remaining_line>>
    IN  IF d.panicked THEN d
        ELSE IF ~InBuffer(d, d.cursor_y) \/ ~IsCharBoundary(cur, d.cursor_x) THEN Panic(d)
        ELSE ensure_cursor_in_view(
               [d EXCEPT !.buffer = SubSeq(@, 1, d.cursor_y) \o rows
                                    \o SubSeq(@, d.cursor_y + 2, Len(@)),
                         !.cursor_y = @ + (n - 1),
                         !.cursor_x = IF n > 1 THEN Len(lines[n]) ELSE @ + Len(lines[1])],
               area)

insert_text_at_cursor(e, text, area) ==
    InsertLines(IF e.selection_start # None THEN delete_selected_text(e, area) ELSE e,
                text, area)

\* paste emptying the clipboard it has inserted
paste_ConsumesClipboard(e, area) ==
    IF e.clipboard # <<>>
    THEN WithStatus([insert_text_at_cursor(e, e.clipboard, area) EXCEPT !.clipboard = <<>>],
                    <<"Pasted {} characters.", Len(e.clipboard)>>)
    ELSE [e EXCEPT !.status_message = Msg("Clipboard is empty.")]

paste(e, area) ==
    IF e.clipboard # <<>>
    THEN WithStatus(insert_text_at_cursor(e, e.clipboard, area),
                    <<"Pasted {} characters.", Len(e.clipboard)>>)
    ELSE [e EXCEPT !.status_message = Msg("Clipboard is empty.")]

----------------------------------------------------------------------------
(* Editing primitives *)

\* insert_char writing c over the character at the cursor
insert_char_Overwrites(e, c, area) ==
    LET cur == Line(e, e.cursor_y) IN
    IF ~InBuffer(e, e.cursor_y) \/ ~IsCharBoundary(cur, e.cursor_x) THEN Panic(e)
    ELSE ensure_cursor_in_view(
           [clear_selection(e) EXCEPT
              !.buffer[e.cursor_y + 1] =
                  Slice(cur, 0, e.cursor_x) \o CharBytes(c)
                      \o Slice(cur, Min(e.cursor_x + 1, Len(cur)), Len(cur)),
              !.cursor_x = @ + 1],
           area)

\* String::insert(idx, c) panics unless idx is a character boundary
insert_char(e, c, area) ==
    LET cur == Line(e, e.cursor_y) IN
    IF ~InBuffer(e, e.cursor_y) \/ ~IsCharBoundary(cur, e.cursor_x) THEN Panic(e)
    ELSE ensure_cursor_in_view(
           [clear_selection(e) EXCEPT
              !.buffer[e.cursor_y + 1] =
                  Slice(cur, 0, e.cursor_x) \o CharBytes(c) \o Slice(cur, e.cursor_x, Len(cur)),
              !.cursor_x = @ + 1],
           area)

insert_newline_TailToLastLine(e, area) ==
    LET cur == Line(e, e.cursor_y) IN
    IF ~InBuffer(e, e.cursor_y) \/ ~IsCharBoundary(cur, e.cursor_x) THEN Panic(e)
    ELSE ensure_cursor_in_view(
           [clear_selection(e) EXCEPT
              !.buffer = SubSeq(@, 1, e.cursor_y)
                         \o <<Slice(cur, 0, e.cursor_x)>>
                         \o SubSeq(@, e.cursor_y + 2, Len(@))
                         \o <<Slice(cur, e.cursor_x, Len(cur))>>,
              !.cursor_y = @ + 1,
              !.cursor_x = 0],
           area)

\* String::split_off(at) panics unless at is a character boundary
insert_newline(e, area) ==
    LET cur == Line(e, e.cursor_y) IN
    IF ~InBuffer(e, e.cursor_y) \/ ~IsCharBoundary(cur, e.cursor_x) THEN Panic(e)
    ELSE ensure_cursor_in_view(
           [clear_selection(e) EXCEPT
              !.buffer = SubSeq(@, 1, e.cursor_y)
                         \o <<Slice(cur, 0, e.cursor_x), Slice(cur, e.cursor_x, Len(cur))>>
                         \o SubSeq(@, e.cursor_y + 2, Len(@)),
              !.cursor_y = @ + 1,
              !.cursor_x = 0],
           area)

\* String::remove(idx) panics unless a character starts at idx
RemoveOk(s, idx) == idx < Len(s) /\ IsCharBoundary(s, idx)
Remove(s, idx) == Slice(s, 0, idx) \o Slice(s, idx + CharWidthAt(s, idx), Len(s))

delete_char_backward(e, area) ==
    IF e.selection_start # None THEN delete_selected_text(e, area)
    ELSE IF ~InBuffer(e, e.cursor_y) THEN Panic(e)
    ELSE IF e.cursor_x > 0
    THEN IF ~RemoveOk(Line(e, e.cursor_y), e.cursor_x - 1) THEN Panic(e)
         ELSE ensure_cursor_in_view(
                [e EXCEPT !.cursor_x = @ - 1,
                          !.buffer[e.cursor_y + 1] = Remove(@, e.cursor_x - 1)], area)
    ELSE IF e.cursor_y > 0
    THEN ensure_cursor_in_view(
           [e EXCEPT !.buffer = SubSeq(@, 1, e.cursor_y - 1)
                                \o <<Line(e, e.cursor_y - 1) \o Line(e, e.cursor_y)>>
                                \o SubSeq(@, e.cursor_y + 2, Len(@)),
                     !.cursor_y = @ - 1,
                     !.cursor_x = Len(Line(e, e.cursor_y - 1))], area)
    ELSE ensure_cursor_in_view(e, area)

delete_char_forward(e, area) ==
    IF e.selection_start # None THEN delete_selected_text(e, area)
    ELSE IF ~InBuffer(e, e.cursor_y) THEN Panic(e)
    ELSE IF e.cursor_x < Len(Line(e, e.cursor_y))
    THEN IF ~RemoveOk(Line(e, e.cursor_y), e.cursor_x) THEN Panic(e)
         ELSE ensure_cursor_in_view(
                [e EXCEPT !.buffer[e.cursor_y + 1] = Remove(@, e.cursor_x)], area)
    ELSE IF e.cursor_y < Len(e.buffer) - 1
    THEN ensure_cursor_in_view(
           [e EXCEPT !.buffer = SubSeq(@, 1, e.cursor_y)
                                \o <<Line(e, e.cursor_y) \o Line(e, e.cursor_y + 1)>>
                                \o SubSeq(@, e.cursor_y + 3, Len(@))], area)
    ELSE ensure_cursor_in_view(e, area)

----------------------------------------------------------------------------
(* Key handlers.  A key is [code, mods]: code names a KeyCode (a one-character *)
(* code is KeyCode::Char of that character), mods is a set of KeyModifiers.    *)

Shift(key) == "SHIFT" \in key.mods
Control(key) == "CONTROL" \in key.mods

\* the character keys the handlers tell apart, the characters typed as text, and
\* "z", a character no handler names
CommandChars == {"i", "a", "o", "O", "h", "j", "k", "l", "b", "w", "0", "$", "x",
                 "c", "u", "v", "q", "y", "Y", "n", "N", "z"}
TypedChars == {"a", " "}
OtherCodes == {"Esc", "Enter", "Backspace", "Delete", "Left", "Right", "Up", "Down",
               "Home", "End", "PageUp", "PageDown", "Tab"}
IsChar(code) == code \in CommandChars \cup TypedChars

\* self.buffer[self.cursor_y].len() where the code first tests cursor_y < buffer.len()
EndOfLine(e) == IF e.cursor_y < Len(e.buffer) THEN Len(Line(e, e.cursor_y)) ELSE 0

handle_key_insert_mode(e, key, area) ==
    LET shift_pressed == Shift(key)
        editor_visible_height == VisibleHeight(area)
        r == CASE key.code = "Esc" ->
                    IF e.vim_enabled
                    THEN IF ~InBuffer(e, e.cursor_y) THEN Panic(e)
                         ELSE [clear_selection(e) EXCEPT
                                 !.input_mode = "Normal",
                                 !.status_message = NormalStatus,
                                 !.cursor_x = Min(SatSub(@, 1),
                                                  Max(SatSub(Len(Line(e, e.cursor_y)), 1), 0))]
                    ELSE e
               [] IsChar(key.code) ->
                    IF key.mods = {} \/ Shift(key) THEN insert_char(e, key.code, area) ELSE e
               [] key.code = "Enter" -> insert_newline(e, area)
               [] key.code = "Backspace" -> delete_char_backward(e, area)
               [] key.code = "Delete" -> delete_char_forward(e, area)
               [] key.code = "Left" ->
                    IF Control(key) THEN move_cursor_word_left(e, area, shift_pressed)
                    ELSE move_cursor_left(e, area, shift_pressed)
               [] key.code = "Right" ->
                    IF Control(key) THEN move_cursor_word_right(e, area, shift_pressed)
                    ELSE move_cursor_right(e, area, shift_pressed)
               [] key.code = "Up" -> move_cursor_up(e, area, shift_pressed)
               [] key.code = "Down" -> move_cursor_down(e, area, shift_pressed)
               [] key.code = "Home" /\ Control(key) ->
                    update_selection_on_move(
                        [e EXCEPT !.cursor_y = 0, !.cursor_x = 0,
                                  !.scroll_y = 0, !.scroll_x = 0], shift_pressed)
               [] key.code = "End" /\ Control(key) ->
                    LET y == SatSub(Len(e.buffer), 1)
                        m == [e EXCEPT !.cursor_y = y]
                    IN  ensure_cursor_in_view(
                          update_selection_on_move([m EXCEPT !.cursor_x = EndOfLine(m)],
                                                   shift_pressed), area)
               [] key.code = "Home" /\ ~Control(key) ->
                    ensure_cursor_in_view(
                      update_selection_on_move([e EXCEPT !.cursor_x = 0, !.scroll_x = 0],
                                               shift_pressed), area)
               [] key.code = "End" /\ ~Control(key) ->
                    ensure_cursor_in_view(
                      update_selection_on_move([e EXCEPT !.cursor_x = EndOfLine(e)],
                                               shift_pressed), area)
               [] key.code = "PageUp" ->
                    LET sy == SatSub(e.scroll_y, editor_visible_height)
                        cy == Max(SatSub(e.cursor_y, editor_visible_height), sy)
                    IN  IF ~(cy < Len(e.buffer)) THEN Panic(e)
                        ELSE ensure_cursor_in_view(
                               update_selection_on_move(
                                 [e EXCEPT !.scroll_y = sy, !.cursor_y = cy,
                                           !.cursor_x = Min(@, Len(Line(e, cy)))],
                                 shift_pressed), area)
               [] key.code = "PageDown" ->
                    LET sy == Min(e.scroll_y + editor_visible_height,
                                  Max(SatSub(Len(e.buffer), 1), 0))
                        cy == Min(e.cursor_y + editor_visible_height, SatSub(Len(e.buffer), 1))
                    IN  IF ~(cy < Len(e.buffer)) THEN Panic(e)
                        ELSE ensure_cursor_in_view(
                               update_selection_on_move(
                                 [e EXCEPT !.scroll_y = sy, !.cursor_y = cy,
                                           !.cursor_x = Min(@, Len(Line(e, cy)))],
                                 shift_pressed), area)
               [] OTHER -> e
    IN  Return(r, FALSE)

handle_key_normal_mode(e0, key, area) ==
    LET shift_pressed == Shift(key)
        e == IF ~shift_pressed /\ e0.selection_start # None THEN clear_selection(e0) ELSE e0
        ToInsert(m) == IF m.panicked THEN m
                       ELSE [m EXCEPT !.input_mode = "Insert", !.status_message = InsertStatus]
        r == CASE key.code = "i" -> ToInsert(e)
               [] key.code = "a" -> ToInsert([e EXCEPT !.cursor_x = @ + 1])
               [] key.code = "o" ->
                    ToInsert(insert_newline([e EXCEPT !.cursor_y = @ + 1, !.cursor_x = 0], area))
               [] key.code = "O" ->
                    LET n == insert_newline(e, area)
                    IN  ToInsert(IF n.panicked THEN n
                                 ELSE [n EXCEPT !.cursor_y = SatSub(@, 1), !.cursor_x = 0])
               [] key.code \in {"h", "Left"} -> move_cursor_left(e, area, shift_pressed)
               [] key.code \in {"j", "Down"} -> move_cursor_down(e, area, shift_pressed)
               [] key.code \in {"k", "Up"} -> move_cursor_up(e, area, shift_pressed)
               [] key.code \in {"l", "Right"} -> move_cursor_right(e, area, shift_pressed)
               [] key.code = "b" -> move_cursor_word_left(e, area, shift_pressed)
               [] key.code = "w" -> move_cursor_word_right(e, area, shift_pressed)
               [] key.code = "0" -> ensure_cursor_in_view([e EXCEPT !.cursor_x = 0], area)
               [] key.code = "$" ->
                    ensure_cursor_in_view([e EXCEPT !.cursor_x = EndOfLine(e)], area)
               [] key.code = "x" -> delete_char_forward(e, area)
               [] key.code = "c" /\ Control(key) -> copy_selection(e)
               [] key.code = "u" /\ Control(key) -> cut_selection(e, area)
               [] key.code = "v" /\ Control(key) -> paste(e, area)
               [] key.code = "Esc" ->
                    LET c == clear_selection(e) IN
                    IF c.cursor_x > 0 /\ ~InBuffer(c, c.cursor_y) THEN Panic(c)
                    ELSE IF c.cursor_x > 0 /\ c.cursor_x = Len(Line(c, c.cursor_y))
                            /\ Len(Line(c, c.cursor_y)) > 0
                         THEN [c EXCEPT !.cursor_x = @ - 1]
                         ELSE c
               [] OTHER -> e
    IN  Return(r, FALSE)

\* the status text of the input mode, set when Help or PromptSave is left
ModeStatus(e) ==
    IF e.vim_enabled
    THEN IF e.input_mode = "Normal" THEN NormalStatus ELSE InsertStatus
    ELSE NanoStatus

handle_key_help_mode(e, key) ==
    Return(IF key.code \in {"Esc", "h", "Enter"}
           THEN [e EXCEPT !.application_mode = "Editing", !.status_message = ModeStatus(e)]
           ELSE e,
           FALSE)

\* handle_key_prompt_save_mode where N under the prompt of an exit request
\* cancels the exit instead of terminating
handle_key_prompt_save_mode_NoCancelsExit(e, key, write_ok) ==
    CASE key.code \in {"y", "Y"} ->
           LET s == save_file(e, write_ok) IN
           IF s.ret THEN Return(s, TRUE)
           ELSE Return([s EXCEPT !.status_message = SaveError(e),
                                 !.application_mode = "Editing"], FALSE)
      [] key.code \in {"n", "N"} ->
           IF e.prompt_message = "Save modified buffer? (Y/N)"
           THEN Return([e EXCEPT !.application_mode = "Editing"], FALSE)
           ELSE Return(e, TRUE)
      [] key.code = "Esc" ->
           Return([e EXCEPT !.application_mode = "Editing", !.status_message = ModeStatus(e)],
                  FALSE)
      [] OTHER -> Return(e, FALSE)

\* handle_key_prompt_save_mode where Escape leaves the status message as it is
handle_key_prompt_save_mode_EscKeepsStatus(e, key, write_ok) ==
    CASE key.code \in {"y", "Y"} ->
           LET s == save_file(e, write_ok) IN
           IF s.ret THEN Return(s, TRUE)
           ELSE Return([s EXCEPT !.status_message = SaveError(e),
                                 !.application_mode = "Editing"], FALSE)
      [] key.code \in {"n", "N"} -> Return(e, TRUE)
      [] key.code = "Esc" -> Return([e EXCEPT !.application_mode = "Editing"], FALSE)
      [] OTHER -> Return(e, FALSE)

handle_key_prompt_save_mode(e, key, write_ok) ==
    CASE key.code \in {"y", "Y"} ->
           LET s == save_file(e, write_ok) IN
           IF s.ret THEN Return(s, TRUE)
           ELSE Return([s EXCEPT !.status_message = SaveError(e),
                                 !.application_mode = "Editing"], FALSE)
      [] key.code \in {"n", "N"} -> Return(e, TRUE)
      [] key.code = "Esc" ->
           Return([e EXCEPT !.application_mode = "Editing", !.status_message = ModeStatus(e)],
                  FALSE)
      [] OTHER -> Return(e, FALSE)

\* the first match of handle_key_input; "ret" is should_exit
GlobalKeys(e, key, area, write_ok) ==
    LET editing == e.application_mode = "Editing"
        r == CASE key.code = "x" /\ Control(key) /\ editing ->
                    IF e.selection_start # None THEN Return(cut_selection(e, area), FALSE)
                    ELSE IF is_dirty(e)
                    THEN Return([e EXCEPT !.application_mode = "PromptSave",
                                          !.prompt_message = "Save modified buffer? (Y/N)"],
                                FALSE)
                    ELSE Return(e, TRUE)
               [] key.code = "w" /\ Control(key) /\ editing ->
                    LET s == save_file(e, write_ok) IN
                    Return(IF s.ret THEN s ELSE [s EXCEPT !.status_message = SaveError(e)],
                           FALSE)
               [] key.code = "q" /\ Control(key) /\ editing ->
                    IF is_dirty(e)
                    THEN Return([e EXCEPT !.application_mode = "PromptSave",
                                          !.prompt_message = "Quit without saving? (Y/N)"],
                                FALSE)
                    ELSE Return(e, TRUE)
               [] key.code = "h" /\ Control(key) /\ editing ->
                    Return([e EXCEPT !.application_mode = "Help",
                                     !.status_message = IF e.vim_enabled THEN HelpStatus ELSE @],
                           FALSE)
               [] OTHER -> Return(e, FALSE)
    IN  r

\* the rest of handle_key_input, on the Editor g the first match left: the
\* return on should_exit and the match on application_mode, with the same key
Dispatch(g, key, area, write_ok) ==
    IF g.panicked \/ g.ret THEN g
    ELSE CASE g.application_mode = "Editing" ->
                IF g.input_mode = "Insert" THEN handle_key_insert_mode(g, key, area)
                ELSE handle_key_normal_mode(g, key, area)
           [] g.application_mode = "Help" -> handle_key_help_mode(g, key)
           [] g.application_mode = "PromptSave" -> handle_key_prompt_save_mode(g, key, write_ok)

handle_key_input(e, key, area, write_ok) ==
    Dispatch(GlobalKeys(e, key, area, write_ok), key, area, write_ok)

\* what draw_ui changes of the Editor: ensure_cursor_in_view on the area of the frame
\* (the later read of buffer[cursor_y] panics exactly when that call does)
draw_ui(e, area) == ensure_cursor_in_view(e, area)

----------------------------------------------------------------------------
(* Editor::run: the optional open_file, then the loop of draw, poll and        *)
(* handle_key_input.  pc is "start", "draw", "poll", "exited" (the loop was    *)
(* left) or "panicked" (the process aborted).                                  *)

\* the size of editor_content_area: 2 visible rows and 2 visible columns
Areas == {[width |-> 10, height |-> 4]}

\* the bytes of the files opened, and their contents
FileBytes == {"a", " ", "\n"}
Texts == UNION {[1..n -> FileBytes] : n \in 0..MaxTextLen}

\* the modifier sets a terminal reports with a key: SHIFT and CONTROL with the
\* keys that move, SHIFT with the others; an upper-case letter or "$" with or
\* without SHIFT, any other character alone, and a command character with CONTROL
Mods(code) ==
    IF code \in {"Left", "Right", "Home", "End"} THEN SUBSET {"SHIFT", "CONTROL"}
    ELSE IF code \in OtherCodes \cup {"O", "Y", "N", "$"} THEN {{}, {"SHIFT"}}
    ELSE {{}}
ControlChars == {"x", "w", "q", "h", "c", "u", "v", "z"}

\* the key events offered to an Editor; while text is being typed the characters
\* typed are those of TypedChars
Keys(e) ==
    LET chars == IF e.application_mode = "Editing" /\ e.input_mode = "Insert"
                 THEN TypedChars ELSE CommandChars \cup TypedChars
    IN  {[code |-> c, mods |-> m] : c \in ControlChars, m \in {{"CONTROL"}}}
        \cup UNION {{[code |-> c, mods |-> m] : m \in Mods(c)} : c \in OtherCodes \cup chars}

\* the outcomes of fs::write that a key can meet
WriteOutcomes(key) == IF key.code \in {"w", "y", "Y"} THEN BOOLEAN ELSE {TRUE}

edvars == <<buffer, cursor_x, cursor_y, scroll_x, scroll_y, original_buffer_hash,
            filename, application_mode, input_mode, vim_enabled, status_message,
            prompt_message, clipboard, selection_start, selection_end>>

\* the Editor becomes e
Becomes(e) ==
    /\ buffer' = e.buffer
    /\ cursor_x' = e.cursor_x
    /\ cursor_y' = e.cursor_y
    /\ scroll_x' = e.scroll_x
    /\ scroll_y' = e.scroll_y
    /\ original_buffer_hash' = e.original_buffer_hash
    /\ filename' = e.filename
    /\ application_mode' = e.application_mode
    /\ input_mode' = e.input_mode
    /\ vim_enabled' = e.vim_enabled
    /\ status_message' = e.status_message
    /\ prompt_message' = e.prompt_message
    /\ clipboard' = e.clipboard
    /\ selection_start' = e.selection_start
    /\ selection_end' = e.selection_end

Init ==
    /\ pc = "start"
    /\ keys_handled = 0
    /\ \E vim \in BOOLEAN : LET e == new_with_backend(vim) IN
        /\ buffer = e.buffer
        /\ cursor_x = e.cursor_x
        /\ cursor_y = e.cursor_y
        /\ scroll_x = e.scroll_x
        /\ scroll_y = e.scroll_y
        /\ original_buffer_hash = e.original_buffer_hash
        /\ filename = e.filename
        /\ application_mode = e.application_mode
        /\ input_mode = e.input_mode
        /\ vim_enabled = e.vim_enabled
        /\ status_message = e.status_message
        /\ prompt_message = e.prompt_message
        /\ clipboard = e.clipboard
        /\ selection_start = e.selection_start
        /\ selection_end = e.selection_end

\* run with no file argument
StartNoFile ==
    /\ pc = "start"
    /\ pc' = "draw"
    /\ UNCHANGED <<edvars, keys_handled>>

\* run with a file argument that open_file reads
StartOpen ==
    /\ pc = "start"
    /\ \E content \in Texts : Becomes(open_file(Self, "f", content))
    /\ pc' = "draw"
    /\ UNCHANGED keys_handled

\* run with a file argument that fs::read_to_string fails on
StartOpenFailed ==
    /\ pc = "start"
    /\ Becomes([Self EXCEPT !.status_message = Msg("Error opening file: <os error>")])
    /\ pc' = "draw"
    /\ UNCHANGED keys_handled

\* a call of the loop left the Editor r: the process aborted in it, or the
\* Editor is r and the loop is at next
Proceed(r, next) ==
    IF r.panicked THEN pc' = "panicked" /\ UNCHANGED edvars
    ELSE pc' = next /\ Becomes(r)

\* terminal.draw: draw_ui in Editing and PromptSave, draw_help_ui in Help
Draw ==
    /\ pc = "draw"
    /\ \E area \in Areas :
         Proceed(IF application_mode = "Help" THEN Self ELSE draw_ui(Self, area), "poll")
    /\ UNCHANGED keys_handled

\* event::poll times out, or the event read is no key event
NoKey ==
    /\ pc = "poll"
    /\ pc' = "draw"
    /\ UNCHANGED <<edvars, keys_handled>>

\* handle_key_input left the Editor r and returned r.ret as should_exit
Handled(r) == Proceed(r, IF r.ret THEN "exited" ELSE "draw")

\* the step of the loop that handles key under the area and the fs::write outcome
KeyStep(key, area, write_ok) ==
    /\ pc = "poll"
    /\ keys_handled < MaxKeys
    /\ keys_handled' = keys_handled + 1
    /\ Handled(handle_key_input(Self, key, area, write_ok))

Key == \E key \in Keys(Self), area \in Areas :
         \E write_ok \in WriteOutcomes(key) : KeyStep(key, area, write_ok)

Next == StartNoFile \/ StartOpen \/ StartOpenFailed \/ Draw \/ NoKey \/ Key

Spec == Init /\ [][Next]_vars

\* handle_key_help_mode as a function of the Editor and the key.  Its inputs are
\* the Editors that the first match of handle_key_input leaves in Help on Ctrl+H
\* (a new Editor or one that opened a file, in either input mode) and every key
\* of Keys.  Under Spec no key is read in Help: the dispatch that follows the
\* first match hands Ctrl+H itself to handle_key_help_mode, which leaves Help.
HelpEditors ==
    LET area == CHOOSE a \in Areas : TRUE
        fresh == {new_with_backend(vim) : vim \in BOOLEAN}
        opened == {open_file(e, "f", content) : e \in fresh, content \in Texts}
        insert == {handle_key_normal_mode(e, [code |-> "i", mods |-> {}], area) :
                     e \in {f \in fresh \cup opened : f.vim_enabled}}
    IN  {GlobalKeys(e, [code |-> "h", mods |-> {"CONTROL"}], area, TRUE) :
           e \in fresh \cup opened \cup insert}

HelpInit ==
    /\ pc = "poll"
    /\ keys_handled = 0
    /\ \E e \in HelpEditors :
        /\ buffer = e.buffer
        /\ cursor_x = e.cursor_x
        /\ cursor_y = e.cursor_y
        /\ scroll_x = e.scroll_x
        /\ scroll_y = e.scroll_y
        /\ original_buffer_hash = e.original_buffer_hash
        /\ filename = e.filename
        /\ application_mode = e.application_mode
        /\ input_mode = e.input_mode
        /\ vim_enabled = e.vim_enabled
        /\ status_message = e.status_message
        /\ prompt_message = e.prompt_message
        /\ clipboard = e.clipboard
        /\ selection_start = e.selection_start
        /\ selection_end = e.selection_end

\* a key handled while in Help
HelpKey ==
    /\ application_mode = "Help"
    /\ \E key \in Keys(Self), area \in Areas : KeyStep(key, area, TRUE)

HelpNext == HelpKey \/ Draw

SpecHelp == HelpInit /\ [][HelpNext]_vars

----------------------------------------------------------------------------
(* copy_selection, cut_selection and paste as operations on an Editor.  The     *)
(* Editors are those a session can have built: a buffer of lines of typed       *)
(* characters, a clipboard of text cut from such lines, the cursor on a valid   *)
(* position, and either no selection or a selection between two valid           *)
(* positions with the cursor on its active endpoint.  Under Spec the key        *)
(* handlers call copy_selection and paste only once the selection is cleared    *)
(* (handle_key_normal_mode), so here the methods are applied themselves.        *)

OpLines == {<<>>, <<"a">>, <<" ", "a">>}
OpBuffers == UNION {[1..n -> OpLines] : n \in 1..MaxRows}
OpClipboards == {<<>>, <<"a">>, <<"\n">>, <<"a", "\n", " ">>, <<" ", "\n", "\n", "a">>}

\* the (row, col) positions of the lines ls
Positions(ls) == UNION {{<<y, x>> : x \in 0..Len(ls[y + 1])} : y \in 0..(Len(ls) - 1)}

\* the Editor with buffer b, clipboard c and the cursor at q, with no selection
\* (p = None) or with the selection from p to q
OpEditor(b, c, p, q) ==
    [new_with_backend(TRUE) EXCEPT !.buffer = b, !.clipboard = c,
                                   !.selection_start = p,
                                   !.selection_end = IF p = None THEN None ELSE q,
                                   !.cursor_y = q[1], !.cursor_x = q[2]]

OpsInit ==
    /\ pc = "poll"
    /\ keys_handled = 0
    /\ \E b \in OpBuffers, c \in OpClipboards :
       \E q \in Positions(b), p \in Positions(b) \cup {None} :
        LET e == OpEditor(b, c, p, q) IN
        /\ buffer = e.buffer
        /\ cursor_x = e.cursor_x
        /\ cursor_y = e.cursor_y
        /\ scroll_x = e.scroll_x
        /\ scroll_y = e.scroll_y
        /\ original_buffer_hash = e.original_buffer_hash
        /\ filename = e.filename
        /\ application_mode = e.application_mode
        /\ input_mode = e.input_mode
        /\ vim_enabled = e.vim_enabled
        /\ status_message = e.status_message
        /\ prompt_message = e.prompt_message
        /\ clipboard = e.clipboard
        /\ selection_start = e.selection_start
        /\ selection_end = e.selection_end

\* one operation is applied to each Editor
CopyOp ==
    /\ pc = "poll" /\ keys_handled = 0
    /\ keys_handled' = 1
    /\ Proceed(copy_selection(Self), "draw")

CutOp ==
    /\ pc = "poll" /\ keys_handled = 0
    /\ keys_handled' = 1
    /\ \E area \in Areas : Proceed(cut_selection(Self, area), "draw")

PasteOp ==
    /\ pc = "poll" /\ keys_handled = 0
    /\ keys_handled' = 1
    /\ \E area \in Areas : Proceed(paste(Self, area), "draw")

OpsNext == CopyOp \/ CutOp \/ PasteOp \/ Draw

SpecOps == OpsInit /\ [][OpsNext]_vars

----------------------------------------------------------------------------
(* open_file and save_file on files with line feeds and carriage returns: the   *)
(* file named on the command line is loaded, and Ctrl+W saves the buffer, which *)
(* writes Join(buffer).                                                         *)

LoadBytes == {"a", "\r", "\n"}
LoadTexts == UNION {[1..n -> LoadBytes] : n \in 0..MaxFileLen}

CtrlW == [code |-> "w", mods |-> {"CONTROL"}]

\* run opens the file, and fs::read_to_string returns content
OpenStep(content) ==
    /\ pc = "start"
    /\ Becomes(open_file(Self, "f", content))
    /\ pc' = "draw"
    /\ UNCHANGED keys_handled

FileOpen == \E content \in LoadTexts : OpenStep(content)

FileSave == \E area \in Areas : KeyStep(CtrlW, area, TRUE)

FileNext == FileOpen \/ Draw \/ FileSave

SpecFile == Init /\ [][FileNext]_vars

----------------------------------------------------------------------------
(* ensure_cursor_in_view as draw_ui calls it on every pass of the loop, on      *)
(* Editors in any state a session can leave them in: a buffer of lines up to    *)
(* MaxCols long, the cursor on a line of the buffer at a column up to one past  *)
(* its end (where Normal-mode 'a' leaves it), and scroll offsets left by an     *)
(* earlier pass on a longer buffer, a longer line or another terminal size.     *)
(* A terminal 8 to 10 columns wide and 2 to 4 rows high leaves 0 to 2 visible   *)
(* columns and 0 to 2 visible rows.                                             *)

ViewAreas == {[width |-> w, height |-> h] : w \in 8..10, h \in 2..4}

ViewLines == {[i \in 1..n |-> "a"] : n \in 0..MaxCols}
ViewBuffers == UNION {[1..n -> ViewLines] : n \in 1..MaxRows}

\* the Editor with buffer b, the cursor at (y, x) and the scroll offsets (sy, sx)
ViewEditor(b, y, x, sy, sx) ==
    [new_with_backend(FALSE) EXCEPT !.buffer = b, !.cursor_y = y, !.cursor_x = x,
                                    !.scroll_y = sy, !.scroll_x = sx]

ViewInit ==
    /\ pc = "draw"
    /\ keys_handled = 0
    /\ \E b \in ViewBuffers, sy \in 0..MaxRows, sx \in 0..(MaxCols + 1) :
       \E y \in 0..(Len(b) - 1) :
       \E x \in 0..(Len(b[y + 1]) + 1) :
        LET e == ViewEditor(b, y, x, sy, sx) IN
        /\ buffer = e.buffer
        /\ cursor_x = e.cursor_x
        /\ cursor_y = e.cursor_y
        /\ scroll_x = e.scroll_x
        /\ scroll_y = e.scroll_y
        /\ original_buffer_hash = e.original_buffer_hash
        /\ filename = e.filename
        /\ application_mode = e.application_mode
        /\ input_mode = e.input_mode
        /\ vim_enabled = e.vim_enabled
        /\ status_message = e.status_message
        /\ prompt_message = e.prompt_message
        /\ clipboard = e.clipboard
        /\ selection_start = e.selection_start
        /\ selection_end = e.selection_end

\* terminal.draw in Editing on a terminal whose content area is area
DrawOn(area) ==
    /\ pc = "draw"
    /\ application_mode # "Help"
    /\ Proceed(draw_ui(Self, area), "poll")
    /\ UNCHANGED keys_handled

ViewDraw == \E area \in ViewAreas : DrawOn(area)

ViewNext == ViewDraw \/ NoKey

SpecView == ViewInit /\ [][ViewNext]_vars

----------------------------------------------------------------------------
(* The movement and editing keys of Insert mode, each handled once on an Editor *)
(* whose lines hold one-byte and two-byte characters: a line of up to           *)
(* MaxLineChars characters, alone or with a line above or below it, no          *)
(* selection, and the cursor on a character boundary of a line.                 *)

\* the characters of a line: a letter, a space, and a two-byte letter
EditChars == {"a", " ", "E"}

\* the bytes of the line of the characters cs
LineOf(cs) == Concat([i \in 1..Len(cs) |-> CharBytes(cs[i])])

EditLines == UNION {{LineOf(cs) : cs \in [1..n -> EditChars]} : n \in 0..MaxLineChars}
NeighbourLines == {<<>>, <<"a">>, <<"E1", "E2", " ">>}

EditBuffers ==
    {<<l>> : l \in EditLines}
        \cup {<<l, m>> : l \in EditLines, m \in NeighbourLines}
        \cup {<<m, l>> : l \in EditLines, m \in NeighbourLines}

\* the (row, col) positions of the lines ls at which a character starts or the
\* line ends
BoundaryPositions(ls) == {p \in Positions(ls) : IsCharBoundary(ls[p[1] + 1], p[2])}

\* the Editor with buffer b and the cursor at p
EditEditor(b, p) ==
    [new_with_backend(FALSE) EXCEPT !.buffer = b, !.cursor_y = p[1], !.cursor_x = p[2]]

EditInit ==
    /\ pc = "poll"
    /\ keys_handled = 0
    /\ \E b \in EditBuffers : \E p \in BoundaryPositions(b) :
        LET e == EditEditor(b, p) IN
        /\ buffer = e.buffer
        /\ cursor_x = e.cursor_x
        /\ cursor_y = e.cursor_y
        /\ scroll_x = e.scroll_x
        /\ scroll_y = e.scroll_y
        /\ original_buffer_hash = e.original_buffer_hash
        /\ filename = e.filename
        /\ application_mode = e.application_mode
        /\ input_mode = e.input_mode
        /\ vim_enabled = e.vim_enabled
        /\ status_message = e.status_message
        /\ prompt_message = e.prompt_message
        /\ clipboard = e.clipboard
        /\ selection_start = e.selection_start
        /\ selection_end = e.selection_end

\* the keys of handle_key_insert_mode that move the cursor by a character, a
\* line or a word, and those that delete a character or split a line
ArrowKeys == {[code |-> c, mods |-> m] : c \in {"Left", "Right", "Up", "Down"},
                                         m \in {{}, {"SHIFT"}}}
WordKeys == {[code |-> c, mods |-> m] : c \in {"Left", "Right"},
                                        m \in {{"CONTROL"}, {"CONTROL", "SHIFT"}}}
EditKeys == {[code |-> c, mods |-> {}] : c \in {"Backspace", "Delete", "Enter"}}

\* the first key of the session is key
FirstKey(key) ==
    /\ keys_handled = 0
    /\ \E area \in Areas : KeyStep(key, area, TRUE)

EditKey == \E key \in ArrowKeys \cup WordKeys \cup EditKeys : FirstKey(key)

EditNext == EditKey \/ Draw

SpecEdit == EditInit /\ [][EditNext]_vars

----------------------------------------------------------------------------
(* Properties *)

CtrlX == [code |-> "x", mods |-> {"CONTROL"}]
CtrlQ == [code |-> "q", mods |-> {"CONTROL"}]
CtrlH == [code |-> "h", mods |-> {"CONTROL"}]

Editing == application_mode = "Editing"
Prompting == application_mode = "PromptSave"
Dirty == hash_buffer(buffer) # original_buffer_hash

\* a key event has just been handled
KeyHandled == keys_handled > 0 /\ pc \in {"draw", "exited"}

\* C1: after every keystroke handled by handle_key_input the cursor is a valid
\* position: cursor_y < number of lines and cursor_x <= length of line cursor_y
C1_CursorValidAfterKey ==
    KeyHandled => cursor_y < Len(buffer) /\ cursor_x <= Len(buffer[cursor_y + 1])

\* C2: no sequence of keystrokes is fatal: no handler indexes outside the buffer
\* or a line, so the process never aborts
C2_NoKeyIsFatal == pc # "panicked"

C4_DirtyExitAlwaysPrompts ==
    [][/\ pc' = "exited" =>
            \/ hash_buffer(buffer') = original_buffer_hash'
            \/ /\ Prompting
               /\ \E key \in Keys(Self), area \in Areas :
                    key.code \in {"n", "N"} /\ KeyStep(key, area, TRUE)
       /\ \A key \in {CtrlX, CtrlQ}, area \in Areas :
            (Editing /\ Dirty /\ KeyStep(key, area, TRUE))
                => (pc' = "draw" /\ application_mode' = "PromptSave")
      ]_vars

\* C4 amended: as C4, but an exit request (Ctrl+X) made while a selection is
\* active is a cut: it does not terminate and does not enter PromptSave
C4_DirtyExitPrompts ==
    [][/\ pc' = "exited" =>
            \/ hash_buffer(buffer') = original_buffer_hash'
            \/ /\ Prompting
               /\ \E key \in Keys(Self), area \in Areas :
                    key.code \in {"n", "N"} /\ KeyStep(key, area, TRUE)
       /\ \A key \in {CtrlX, CtrlQ}, area \in Areas :
            (Editing /\ Dirty /\ KeyStep(key, area, TRUE))
                => IF key = CtrlX /\ selection_start # None
                   THEN pc' = "draw" /\ application_mode' = "Editing"
                   ELSE pc' = "draw" /\ application_mode' = "PromptSave"
      ]_vars

\* the session ended on N with unsaved changes, from the prompt of an exit request
C4_Witness ==
    /\ pc = "exited"
    /\ Prompting
    /\ Dirty
    /\ prompt_message = "Save modified buffer? (Y/N)"

\* the offset of position pos in the text of the lines joined by "\n"
RECURSIVE Offset(_, _)
Offset(ls, pos) ==
    IF pos[1] = 0 THEN pos[2] ELSE Len(ls[1]) + 1 + Offset(Tail(ls), <<pos[1] - 1, pos[2]>>)

\* C5: Ctrl+X in Editing with a selection active does not terminate and is
\* exactly a cut: the clipboard is the selected text, the text of the buffer is
\* the previous text without the selected range, the cursor is at the start
C5_ExitWithSelectionIsExactlyCut ==
    [][\A area \in Areas :
          (Editing /\ selection_start # None /\ KeyStep(CtrlX, area, TRUE)) =>
              LET sel == get_normalized_selection(Self)
                  text == Join(buffer)
                  from == Offset(buffer, sel[1])
                  to == Offset(buffer, sel[2])
              IN  /\ pc' = "draw"
                  /\ clipboard' = SubSeq(text, from + 1, to)
                  /\ Join(buffer') = SubSeq(text, 1, from) \o SubSeq(text, to + 1, Len(text))
                  /\ <<cursor_y', cursor_x'>> = sel[1]
      ]_vars

\* C6: Ctrl+H in Editing leaves the dispatcher in Help once the key is handled,
\* with buffer, cursor and input mode unchanged
C6_HelpRequestEntersHelp ==
    [][\A area \in Areas :
          (Editing /\ KeyStep(CtrlH, area, TRUE)) =>
              /\ application_mode' = "Help"
              /\ UNCHANGED <<buffer, cursor_x, cursor_y, input_mode>>
      ]_vars

SaveErrors == {Msg("Error saving: <os error>"), Msg("Error saving: other error")}

\* C8: Y in PromptSave saves: on success the session terminates and the baseline
\* is the hash of the buffer; on failure (fs::write fails, or no filename) the
\* session goes on in Editing with an error status, buffer and baseline unchanged
C8_PromptYes ==
    [][Prompting => \A key \in Keys(Self), area \in Areas, write_ok \in BOOLEAN :
          (key.code \in {"y", "Y"} /\ KeyStep(key, area, write_ok)) =>
              IF filename # None /\ write_ok
              THEN /\ pc' = "exited"
                   /\ buffer' = buffer
                   /\ original_buffer_hash' = hash_buffer(buffer)
              ELSE /\ pc' = "draw"
                   /\ application_mode' = "Editing"
                   /\ status_message' \in SaveErrors
                   /\ UNCHANGED <<buffer, original_buffer_hash>>
      ]_vars

\* Y was answered and fs::write failed: Editing again, still dirty
C8_Witness ==
    /\ pc = "draw"
    /\ Editing
    /\ prompt_message # ""
    /\ filename # None
    /\ status_message = Msg("Error saving: <os error>")
    /\ Dirty

\* C9: N in PromptSave terminates at once under either prompt, and saves
\* nothing: buffer, filename and baseline are unchanged
C9_PromptNo ==
    [][Prompting => \A key \in Keys(Self), area \in Areas :
          (key.code \in {"n", "N"} /\ KeyStep(key, area, TRUE)) =>
              /\ pc' = "exited"
              /\ UNCHANGED <<buffer, filename, original_buffer_hash>>
      ]_vars

\* the session ended on N from the prompt of a quit-without-saving request
C9_Witness ==
    /\ pc = "exited"
    /\ Prompting
    /\ Dirty
    /\ prompt_message = "Quit without saving? (Y/N)"

\* C10 as stated: Escape in PromptSave returns to Editing without saving or
\* terminating, and the status message is the one shown before the prompt was
\* opened (no key changes it while the prompt is open, so: it is unchanged)
C10_PromptEscRestoresStatus ==
    [][Prompting => \A key \in Keys(Self), area \in Areas :
          (key.code = "Esc" /\ KeyStep(key, area, TRUE)) =>
              /\ pc' = "draw"
              /\ application_mode' = "Editing"
              /\ UNCHANGED <<buffer, original_buffer_hash>>
              /\ status_message' = status_message
      ]_vars

\* C10 amended: Escape in PromptSave returns to Editing without saving or
\* terminating, and the status message is the text of the input mode:
\* "-- NORMAL --" or "-- INSERT --" with modal editing, else the key hint
C10_PromptEscSetsModeStatus ==
    [][Prompting => \A key \in Keys(Self), area \in Areas :
          (key.code = "Esc" /\ KeyStep(key, area, TRUE)) =>
              /\ pc' = "draw"
              /\ application_mode' = "Editing"
              /\ UNCHANGED <<buffer, original_buffer_hash>>
              /\ status_message' =
                    IF vim_enabled
                    THEN IF input_mode = "Normal" THEN <<"-- NORMAL --", 0>>
                         ELSE <<"-- INSERT --", 0>>
                    ELSE <<"Ctrl+X Exit | Ctrl+W Save | Ctrl+H Help", 0>>
      ]_vars

\* the prompt of a file that was opened was cancelled: the status shown is the
\* key hint, no longer "Opened: f"
C10_Witness ==
    /\ pc = "draw"
    /\ Editing
    /\ prompt_message # ""
    /\ ~vim_enabled
    /\ filename # None
    /\ Dirty
    /\ status_message = NanoStatus

----------------------------------------------------------------------------
(* Input mode and selection under movement *)

\* C11: the input mode starts Normal exactly when vim_enabled is set, vim_enabled
\* never changes, and with vim_enabled unset the input mode is always Insert
C11_InputModeFollowsFlag ==
    /\ (input_mode = "Normal" <=> vim_enabled)
    /\ [][vim_enabled' = vim_enabled]_vars
    /\ [](~vim_enabled => input_mode = "Insert")

\* with vim_enabled unset MaxKeys keys were handled, some of them edited the
\* buffer, and the input mode is Insert
C11_Witness ==
    /\ ~vim_enabled
    /\ keys_handled = MaxKeys
    /\ input_mode = "Insert"
    /\ Editing
    /\ Dirty

\* the keys that invoke a movement primitive (left, right, up, down, word-left,
\* word-right) in the mode the Editor is in
MoveCodes ==
    IF input_mode = "Insert" THEN {"Left", "Right", "Up", "Down"}
    ELSE {"Left", "Right", "Up", "Down", "h", "j", "k", "l", "b", "w"}
MoveKeys == {key \in Keys(Self) : key.code \in MoveCodes /\ (IsChar(key.code) => key.mods = {})}

\* C12: a movement with the extend flag set and no selection active leaves the
\* anchor at the cursor held before the move and the active endpoint at the
\* cursor after it; with a selection active the anchor is unchanged and the
\* active endpoint is the cursor after the move
C12_ExtendAnchorsAtOldCursor ==
    [][\A key \in MoveKeys, area \in Areas :
          (Editing /\ Shift(key) /\ KeyStep(key, area, TRUE) /\ pc' = "draw") =>
              /\ selection_start' = IF selection_start = None THEN <<cursor_y, cursor_x>>
                                    ELSE selection_start
              /\ selection_end' = <<cursor_y', cursor_x'>>
      ]_vars

\* C13: after a movement with the extend flag unset, in Insert and in Normal
\* mode, no selection is active, also when the move is a no-op
C13_PlainMoveClearsSelection ==
    [][\A key \in MoveKeys, area \in Areas :
          (Editing /\ ~Shift(key) /\ KeyStep(key, area, TRUE) /\ pc' = "draw") =>
              selection_start' = None /\ selection_end' = None
      ]_vars

----------------------------------------------------------------------------
(* Clipboard keys *)

CtrlC == [code |-> "c", mods |-> {"CONTROL"}]
CtrlU == [code |-> "u", mods |-> {"CONTROL"}]
CtrlV == [code |-> "v", mods |-> {"CONTROL"}]

SelectionActive == selection_start # None /\ selection_end # None

\* the text of the lines ls joined by "\n": the part between the two positions
\* of sel, the text without that part, and the text with t put in at pos
TextBetween(ls, sel) == SubSeq(Join(ls), Offset(ls, sel[1]) + 1, Offset(ls, sel[2]))
TextWithout(ls, sel) ==
    SubSeq(Join(ls), 1, Offset(ls, sel[1]))
        \o SubSeq(Join(ls), Offset(ls, sel[2]) + 1, Len(Join(ls)))
TextWith(ls, pos, t) ==
    SubSeq(Join(ls), 1, Offset(ls, pos)) \o t
        \o SubSeq(Join(ls), Offset(ls, pos) + 1, Len(Join(ls)))

\* C16: in Normal mode Ctrl+C with a selection active sets the clipboard to the
\* selected text and leaves buffer and cursor unchanged; with no selection
\* active it leaves the clipboard unchanged
C16_NormalCopy ==
    [][\A area \in Areas :
          (Editing /\ input_mode = "Normal" /\ KeyStep(CtrlC, area, TRUE) /\ pc' = "draw") =>
              IF SelectionActive
              THEN /\ clipboard' = TextBetween(buffer, get_normalized_selection(Self))
                   /\ UNCHANGED <<buffer, cursor_x, cursor_y>>
              ELSE clipboard' = clipboard
      ]_vars

\* C17: with vim_enabled unset Ctrl+C copies the active selection into the
\* clipboard, Ctrl+U cuts it, and Ctrl+V pastes the clipboard at the cursor
C17_NanoClipboardKeys ==
    [][\A area \in Areas :
          /\ (~vim_enabled /\ Editing /\ SelectionActive /\ pc' = "draw"
                /\ KeyStep(CtrlC, area, TRUE)) =>
                 clipboard' = TextBetween(buffer, get_normalized_selection(Self))
          /\ (~vim_enabled /\ Editing /\ SelectionActive /\ pc' = "draw"
                /\ KeyStep(CtrlU, area, TRUE)) =>
                 /\ clipboard' = TextBetween(buffer, get_normalized_selection(Self))
                 /\ Join(buffer') = TextWithout(buffer, get_normalized_selection(Self))
          /\ (~vim_enabled /\ Editing /\ ~SelectionActive /\ clipboard # <<>> /\ pc' = "draw"
                /\ KeyStep(CtrlV, area, TRUE)) =>
                 Join(buffer') = TextWith(buffer, <<cursor_y, cursor_x>>, clipboard)
      ]_vars

----------------------------------------------------------------------------
(* Selection and clipboard operations *)

\* the Editor with anchor and active endpoint exchanged
Reversed == [Self EXCEPT !.selection_start = selection_end, !.selection_end = selection_start]

\* C14: a selection from A to B and the selection from B to A have the same
\* normalized (start, end), with start <= end lexicographically, and the same
\* extracted text
C14_NormalizationOrderIndependent ==
    SelectionActive =>
        /\ get_normalized_selection(Self) = get_normalized_selection(Reversed)
        /\ LexLeq(get_normalized_selection(Self)[1], get_normalized_selection(Self)[2])
        /\ SelectedTextOk(Self) /\ SelectedTextOk(Reversed)
        /\ get_selected_text(Self) = get_selected_text(Reversed)
        /\ get_selected_text(Self) = TextBetween(buffer, get_normalized_selection(Self))

\* a selection whose anchor lies rows after its active endpoint was copied
C14_Witness ==
    /\ pc = "draw"
    /\ SelectionActive
    /\ selection_start[1] > selection_end[1] + 1
    /\ status_message[1] = "Copied {} characters."
    /\ clipboard = TextBetween(buffer, <<selection_end, selection_start>>)
    /\ Len(clipboard) > 2

\* C15: cut with a selection (start, end) active sets the clipboard to the
\* extracted text, makes the text of the buffer the previous text without the
\* part between start and end, puts the cursor at start and clears the
\* selection; cut with no selection leaves buffer, cursor and clipboard unchanged
C15_CutRemovesExactlySelection ==
    [][CutOp =>
          IF SelectionActive
          THEN /\ pc' = "draw"
               /\ clipboard' = TextBetween(buffer, get_normalized_selection(Self))
               /\ Join(buffer') = TextWithout(buffer, get_normalized_selection(Self))
               /\ Len(buffer') = Len(buffer) - (get_normalized_selection(Self)[2][1]
                                                - get_normalized_selection(Self)[1][1])
               /\ <<cursor_y', cursor_x'>> = get_normalized_selection(Self)[1]
               /\ selection_start' = None /\ selection_end' = None
          ELSE UNCHANGED <<buffer, cursor_x, cursor_y, clipboard>>
      ]_vars

\* a cut took a line and parts of the lines around it out of a buffer of
\* three lines: one line is left, the clipboard holds two line feeds
C15_Witness ==
    /\ pc = "draw"
    /\ status_message[1] = "Cut {} characters."
    /\ Len(buffer) = 1
    /\ buffer[1] # <<>>
    /\ Len(SelectSeq(clipboard, LAMBDA b : b = "\n")) = 2
    /\ Len(clipboard) > 3
    /\ ~SelectionActive

\* the text of the buffer before paste inserts, and the offset it inserts at
PasteBase == IF SelectionActive THEN TextWithout(buffer, get_normalized_selection(Self))
             ELSE Join(buffer)
PasteOffset == IF SelectionActive THEN Offset(buffer, get_normalized_selection(Self)[1])
               ELSE Offset(buffer, <<cursor_y, cursor_x>>)

\* C18: paste with a clipboard T that is not empty makes the text of the buffer
\* the previous text (less the selected range, if a selection is active) with T
\* put in at the cursor, leaves the cursor at the end of T and the clipboard as
\* it was; paste with an empty clipboard leaves buffer, cursor and selection
C18_PasteInsertsClipboard ==
    [][PasteOp =>
          IF clipboard # <<>>
          THEN /\ pc' = "draw"
               /\ Join(buffer') = SubSeq(PasteBase, 1, PasteOffset) \o clipboard
                                    \o SubSeq(PasteBase, PasteOffset + 1, Len(PasteBase))
               /\ cursor_y' < Len(buffer') /\ cursor_x' <= Len(buffer'[cursor_y' + 1])
               /\ Offset(buffer', <<cursor_y', cursor_x'>>) = PasteOffset + Len(clipboard)
               /\ clipboard' = clipboard
          ELSE UNCHANGED <<buffer, cursor_x, cursor_y, selection_start, selection_end>>
      ]_vars

\* a clipboard of three lines was pasted between two characters
C18_Witness ==
    /\ pc = "draw"
    /\ status_message = <<"Pasted {} characters.", 4>>
    /\ clipboard = <<" ", "\n", "\n", "a">>
    /\ Len(buffer) = 3
    /\ cursor_y = 2 /\ cursor_x = 1
    /\ buffer[1] = <<" ", " ">>
    /\ buffer[3] = <<"a", "a">>

----------------------------------------------------------------------------
(* Load and save *)

EndsWithNewline(t) == t # <<>> /\ t[Len(t)] = "\n"

\* C19: for every text that does not end with a line feed, the lines it is
\* loaded into, joined with "\n" as save_file writes them, are the text
C19_RoundTripWithoutFinalNewline ==
    [][\A content \in LoadTexts :
          (OpenStep(content) /\ ~EndsWithNewline(content)) => Join(buffer') = content
      ]_vars

\* C20: a text that ends with a line feed is loaded with an empty last line,
\* so that the unmodified buffer is saved as the same text
C20_FinalNewlineKept ==
    [][\A content \in LoadTexts :
          (OpenStep(content) /\ EndsWithNewline(content)) =>
              /\ buffer'[Len(buffer')] = <<>>
              /\ Join(buffer') = content
      ]_vars

----------------------------------------------------------------------------
(* The dirty flag *)

\* the keys that request a save in the mode the Editor is in: Ctrl+W in
\* Editing, Y in PromptSave
SaveKeys ==
    IF Editing THEN {CtrlW}
    ELSE IF Prompting THEN {key \in Keys(Self) : key.code \in {"y", "Y"}}
    ELSE {}

\* the keys that insert a character: a typed character in Insert mode with no
\* modifier or with SHIFT
InsertKeys ==
    IF Editing /\ input_mode = "Insert"
    THEN {[code |-> c, mods |-> m] : c \in TypedChars, m \in {{}, {"SHIFT"}}}
    ELSE {}

\* C21: the buffer is not dirty after construction, after every successful load
\* and after every successful save; the baseline is changed by no step other
\* than a successful load or a successful save
C21_BaselineFollowsLoadAndSave ==
    /\ ~Dirty
    /\ [][/\ \A content \in Texts :
               (pc = "start" /\ Becomes(open_file(Self, "f", content))) => ~Dirty'
          /\ \A key \in SaveKeys, area \in Areas :
               (filename # None /\ KeyStep(key, area, TRUE) /\ pc' # "panicked") => ~Dirty'
          /\ original_buffer_hash' # original_buffer_hash =>
               \/ (pc = "start" /\ filename' # None)
               \/ (/\ filename # None
                   /\ \E key \in SaveKeys, area \in Areas : KeyStep(key, area, TRUE))
         ]_vars

\* a file was loaded, edited and saved with Ctrl+W: the baseline is the hash of
\* the edited buffer, no longer that of the file's lines
C21_Witness ==
    /\ pc = "draw"
    /\ status_message[1] = "Saved {} lines to f"
    /\ ~Dirty
    /\ Len(Join(buffer)) = MaxTextLen + 1

\* C22 as stated: the buffer is dirty after any character insertion, whatever
\* the baseline and whatever edits preceded the insertion
C22_InsertionMakesDirty ==
    [][\A key \in InsertKeys, area \in Areas :
          (KeyStep(key, area, TRUE) /\ pc' = "draw") => Dirty'
      ]_vars

\* C22 amended: a character insertion changes the hash of the buffer, so the
\* buffer is dirty after any character insertion made while it was not dirty
C22_InsertionIntoCleanMakesDirty ==
    [][\A key \in InsertKeys, area \in Areas :
          (KeyStep(key, area, TRUE) /\ pc' = "draw") =>
              /\ hash_buffer(buffer') # hash_buffer(buffer)
              /\ (~Dirty => Dirty')
      ]_vars

\* a file of one line was loaded and saved, and then a character was typed into it
C22_Witness ==
    /\ pc = "draw"
    /\ filename # None
    /\ keys_handled = 2
    /\ input_mode = "Insert"
    /\ Dirty
    /\ Len(buffer) = 1
    /\ Len(buffer[1]) = MaxTextLen + 1
    /\ status_message[1] = "Saved {} lines to f"

----------------------------------------------------------------------------
(* The viewport *)

\* C23: after every viewport normalization with at least one visible row,
\* scroll_y <= cursor_y < scroll_y + visible rows and scroll_y <= number of
\* lines - 1, whatever the buffer, the cursor and the scroll offset before
C23_CursorRowVisible ==
    [][\A area \in ViewAreas :
          (VisibleHeight(area) >= 1 /\ DrawOn(area) /\ pc' = "poll") =>
              /\ scroll_y' <= cursor_y'
              /\ cursor_y' < scroll_y' + VisibleHeight(area)
              /\ scroll_y' <= Len(buffer') - 1
      ]_vars

\* the viewport was normalized with the cursor on the last of MaxRows lines and
\* is scrolled down to it
C23_Witness ==
    /\ pc = "poll"
    /\ Len(buffer) = MaxRows
    /\ cursor_y = MaxRows - 1
    /\ scroll_y \in {cursor_y - 1, cursor_y}

\* C24: after every viewport normalization with at least one visible column,
\* scroll_x <= cursor_x < scroll_x + visible columns, also with the cursor after
\* the last character of a line at least as long as the visible width
C24_CursorColumnVisible ==
    \A area \in Areas :
        (pc = "poll" /\ application_mode # "Help" /\ EffectiveWidth(area) >= 1) =>
            /\ scroll_x <= cursor_x
            /\ cursor_x < scroll_x + EffectiveWidth(area)

\* C25: ensure_cursor_in_view applied twice with no change in between leaves
\* the scroll offsets and the cursor that one application leaves, for every
\* size of the content area, also one with no visible row or column
C25_NormalizationIdempotent ==
    [][\A area \in ViewAreas :
          (DrawOn(area) /\ pc' = "poll") =>
              LET twice == ensure_cursor_in_view(ensure_cursor_in_view(Self, area), area)
              IN  /\ ~twice.panicked
                  /\ twice.scroll_x = scroll_x' /\ twice.scroll_y = scroll_y'
                  /\ twice.cursor_x = cursor_x' /\ twice.cursor_y = cursor_y'
      ]_vars

----------------------------------------------------------------------------
(* Normal-mode line opening, Escape, and saving without a filename *)

\* the lines ls with an empty line put in before line y (0-based)
WithEmptyLineAt(ls, y) == SubSeq(ls, 1, y) \o <<<<>>>> \o SubSeq(ls, y + 1, Len(ls))

\* C26: Normal-mode 'o' puts an empty line below the cursor's line and leaves
\* every other line as it was, in order; the cursor is at column 0 of the new
\* line and the input mode is Insert, on every row, the last one included
C26_OpenLineBelow ==
    [][(Editing /\ input_mode = "Normal") => \A area \in Areas :
          KeyStep([code |-> "o", mods |-> {}], area, TRUE) =>
              /\ pc' = "draw"
              /\ buffer' = WithEmptyLineAt(buffer, cursor_y + 1)
              /\ cursor_y' = cursor_y + 1
              /\ cursor_x' = 0
              /\ input_mode' = "Insert"
      ]_vars

\* C27: Normal-mode 'O' puts an empty line above the cursor's line and leaves
\* every other line as it was (the cursor's line is not split); the cursor is
\* at column 0 of the new line and the input mode is Insert, on every column
C27_OpenLineAbove ==
    [][(Editing /\ input_mode = "Normal") => \A mods \in {{}, {"SHIFT"}}, area \in Areas :
          KeyStep([code |-> "O", mods |-> mods], area, TRUE) =>
              /\ pc' = "draw"
              /\ buffer' = WithEmptyLineAt(buffer, cursor_y)
              /\ cursor_y' = cursor_y
              /\ cursor_x' = 0
              /\ input_mode' = "Insert"
      ]_vars

\* C28: with vim_enabled set, Escape in Insert mode enters Normal mode and moves
\* the cursor only from the column after the last character of its line, to the
\* last character; with vim_enabled unset it changes neither mode nor cursor
C28_InsertEscape ==
    [][(Editing /\ input_mode = "Insert") => \A mods \in {{}, {"SHIFT"}}, area \in Areas :
          (KeyStep([code |-> "Esc", mods |-> mods], area, TRUE) /\ pc' = "draw") =>
              IF vim_enabled
              THEN /\ input_mode' = "Normal"
                   /\ cursor_y' = cursor_y
                   /\ cursor_x' = IF cursor_x > 0 /\ cursor_x = Len(buffer[cursor_y + 1])
                                  THEN cursor_x - 1
                                  ELSE cursor_x
              ELSE UNCHANGED <<input_mode, cursor_x, cursor_y>>
      ]_vars

\* C29: Ctrl+W with no filename does not terminate, leaves buffer and baseline
\* unchanged, and leaves the status message that names the missing filename,
\* which is not the status of a failed write
C29_SaveWithoutFilename ==
    [][(Editing /\ filename = None) => \A area \in Areas, write_ok \in BOOLEAN :
          KeyStep(CtrlW, area, write_ok) =>
              /\ pc' = "draw"
              /\ UNCHANGED <<buffer, original_buffer_hash>>
              /\ status_message' = Msg("No filename. Cannot save. (Implement :w <filename>)")
      ]_vars

----------------------------------------------------------------------------
(* Selected-text extraction *)

\* C30: the text extracted for a normalized selection (start, end), as copy puts
\* it on the clipboard, is the part of the lines joined by "\n" between the
\* offsets of start and end: on one row the columns from start to end, on
\* several rows the rest of the start row, the rows between and the end row up
\* to end, joined by "\n"
C30_ExtractionIsSubstring ==
    [][(CopyOp /\ SelectionActive) =>
          LET sel == get_normalized_selection(Self)
              start_line == buffer[sel[1][1] + 1]
              end_line == buffer[sel[2][1] + 1]
          IN  /\ pc' = "draw"
              /\ clipboard' = SubSeq(Join(buffer), Offset(buffer, sel[1]) + 1,
                                     Offset(buffer, sel[2]))
              /\ clipboard' =
                    IF sel[1][1] = sel[2][1]
                    THEN SubSeq(start_line, sel[1][2] + 1, sel[2][2])
                    ELSE Join(<<SubSeq(start_line, sel[1][2] + 1, Len(start_line))>>
                              \o SubSeq(buffer, sel[1][1] + 2, sel[2][1])
                              \o <<SubSeq(end_line, 1, sel[2][2])>>)
      ]_vars

\* a selection from the first row to the third, over a second row that is not
\* empty, was copied
C30_Witness ==
    /\ pc = "draw"
    /\ status_message[1] = "Copied {} characters."
    /\ SelectionActive
    /\ selection_start[1] = 0 /\ selection_end[1] = 2
    /\ Len(buffer[2]) = 2
    /\ Len(clipboard) >= 4
    /\ status_message[2] = Len(clipboard)

----------------------------------------------------------------------------
(* Word motion, movement and editing primitives *)

CtrlRightKeys == {key \in WordKeys : key.code = "Right"}

\* the line the cursor is on
CursorLine == buffer[cursor_y + 1]

\* the offset reached from offset i of the line s by passing every character
\* whose is_alphanumeric is alnum
RECURSIVE PassRun(_, _, _)
PassRun(s, i, alnum) ==
    IF i < Len(s) /\ IsAlphanumeric(s[i + 1]) = alnum
    THEN PassRun(s, i + CharWidthAt(s, i), alnum)
    ELSE i

\* the offset after the alphanumeric run at i, if any, and the run of other
\* characters that follows it
NextWordStart(s, i) == PassRun(s, PassRun(s, i, TRUE), FALSE)

\* C31: word-right from a column before the end of its line lands, on that line,
\* after the alphanumeric run at the cursor (if any) and the run of other
\* characters after it; from the end of a line that is not the last it goes to
\* column 0 of the next line and does the same from there; at the end of the
\* last line it leaves the cursor where it is
C31_WordRight ==
    [][\A key \in CtrlRightKeys :
          FirstKey(key) =>
              /\ pc' = "draw"
              /\ IF cursor_x < Len(CursorLine)
                 THEN /\ cursor_y' = cursor_y
                      /\ cursor_x' = NextWordStart(CursorLine, cursor_x)
                 ELSE IF cursor_y < Len(buffer) - 1
                 THEN /\ cursor_y' = cursor_y + 1
                      /\ cursor_x' = NextWordStart(buffer[cursor_y + 2], 0)
                 ELSE UNCHANGED <<cursor_x, cursor_y>>
      ]_vars

\* C32: left from column 0 of a row after the first goes to the end of the row
\* above, right from the end of a row before the last to column 0 of the row
\* below; up and down go to the row above or below at the column clamped to
\* that row's length; left at (0, 0), right at the end of the last row, up on
\* the first row and down on the last leave the cursor; none changes the buffer
C32_MovementPrimitives ==
    [][\A key \in ArrowKeys :
          FirstKey(key) =>
              /\ pc' = "draw"
              /\ buffer' = buffer
              /\ (key.code = "Left" /\ cursor_x = 0) =>
                    IF cursor_y > 0
                    THEN cursor_y' = cursor_y - 1 /\ cursor_x' = Len(buffer[cursor_y])
                    ELSE UNCHANGED <<cursor_x, cursor_y>>
              /\ (key.code = "Right" /\ cursor_x = Len(CursorLine)) =>
                    IF cursor_y < Len(buffer) - 1
                    THEN cursor_y' = cursor_y + 1 /\ cursor_x' = 0
                    ELSE UNCHANGED <<cursor_x, cursor_y>>
              /\ key.code = "Up" =>
                    IF cursor_y > 0
                    THEN /\ cursor_y' = cursor_y - 1
                         /\ cursor_x' = Min(cursor_x, Len(buffer[cursor_y]))
                    ELSE UNCHANGED <<cursor_x, cursor_y>>
              /\ key.code = "Down" =>
                    IF cursor_y < Len(buffer) - 1
                    THEN /\ cursor_y' = cursor_y + 1
                         /\ cursor_x' = Min(cursor_x, Len(buffer[cursor_y + 2]))
                    ELSE UNCHANGED <<cursor_x, cursor_y>>
      ]_vars

\* left was pressed at column 0 of the second row, under a first row of
\* MaxLineChars two-byte characters: the cursor is at the end of the first row
C32_Witness ==
    /\ pc = "draw"
    /\ keys_handled = 1
    /\ Len(buffer) = 2
    /\ cursor_y = 0
    /\ cursor_x = 2 * MaxLineChars
    /\ cursor_x = Len(buffer[1])

Backspace == [code |-> "Backspace", mods |-> {}]
Delete == [code |-> "Delete", mods |-> {}]
Enter == [code |-> "Enter", mods |-> {}]

\* the offset of the cursor in the text of the buffer's lines joined by "\n"
CursorOffset == Offset(buffer, <<cursor_y, cursor_x>>)

\* the number of bytes of the character that ends at offset o of the text t
WidthBefore(t, o) == IF o >= 2 /\ IsCont(t[o]) THEN 2 ELSE 1

\* the text t without the w bytes from offset o on
TextCut(t, o, w) == SubSeq(t, 1, o) \o SubSeq(t, o + w + 1, Len(t))

\* C33: with no selection, delete-backward removes the one character or line
\* break before the cursor and leaves the cursor where it was removed (merging
\* rows r-1 and r at a line start puts it at the old length of row r-1), and
\* does nothing at (0, 0); delete-forward removes the one character or line
\* break at the cursor and leaves the cursor, and does nothing at the end of
\* the last line
C33_DeleteOneCharacter ==
    [][/\ FirstKey(Backspace) =>
             /\ pc' = "draw"
             /\ IF CursorOffset = 0 THEN UNCHANGED <<buffer, cursor_x, cursor_y>>
                ELSE LET w == WidthBefore(Join(buffer), CursorOffset)
                     IN  /\ Join(buffer') = TextCut(Join(buffer), CursorOffset - w, w)
                         /\ Offset(buffer', <<cursor_y', cursor_x'>>) = CursorOffset - w
                         /\ cursor_y' = IF cursor_x = 0 THEN cursor_y - 1 ELSE cursor_y
       /\ FirstKey(Delete) =>
             /\ pc' = "draw"
             /\ UNCHANGED <<cursor_x, cursor_y>>
             /\ IF CursorOffset = Len(Join(buffer)) THEN buffer' = buffer
                ELSE Join(buffer') = TextCut(Join(buffer), CursorOffset,
                                             CharWidthAt(Join(buffer), CursorOffset))
      ]_vars

\* C34: insert-newline at (r, c) splits line r at column c: the lines before
\* and after row r keep their content and order, row r keeps the first c
\* bytes, a new row r+1 holds the rest, the line count grows by one and the
\* cursor is at (r+1, 0)
C34_NewlineSplitsLine ==
    [][FirstKey(Enter) =>
         /\ pc' = "draw"
         /\ Len(buffer') = Len(buffer) + 1
         /\ \A i \in 1..Len(buffer') :
               buffer'[i] = IF i <= cursor_y THEN buffer[i]
                            ELSE IF i = cursor_y + 1 THEN SubSeq(CursorLine, 1, cursor_x)
                            ELSE IF i = cursor_y + 2
                                 THEN SubSeq(CursorLine, cursor_x + 1, Len(CursorLine))
                            ELSE buffer[i - 1]
         /\ cursor_y' = cursor_y + 1
         /\ cursor_x' = 0
      ]_vars

\* a line split inside its text, above an untouched last line
C34_Witness ==
    /\ pc = "draw" /\ keys_handled = 1 /\ Len(buffer) = 3
    /\ cursor_y = 1 /\ cursor_x = 0
    /\ buffer[1] # <<>> /\ buffer[2] # <<>> /\ buffer[3] # <<>>

\* C35: in buffers with characters of more than one byte, every cursor column
\* that a movement primitive or a word motion produces from a character
\* boundary is again a character boundary of the cursor's line
C35_ColumnsAreBoundaries ==
    [][\A key \in ArrowKeys \cup WordKeys :
         FirstKey(key) =>
           /\ pc' = "draw"
           /\ IsCharBoundary(buffer'[cursor_y' + 1], cursor_x')
      ]_vars

\* the column one pass of word-right reaches from column x of the line s: the
\* two loops over the line's characters, without the second skip
SinglePass(s, x) == SkipRight(Chars(s), SkipRight(Chars(s), x, TRUE), FALSE)

\* C37: the second skip of word-right never fires: for every line and every
\* starting column, the cursor that move_cursor_word_right produces is the one
\* a single pass produces (skip the alphanumeric run, then the run of other
\* characters), on the cursor's line or, from the end of a line that is not
\* the last, from column 0 of the next line
C37_SecondSkipNeverFires ==
    [][\A key \in CtrlRightKeys :
         FirstKey(key) =>
           /\ pc' = "draw"
           /\ buffer' = buffer
           /\ IF cursor_x # Len(CursorLine)
              THEN cursor_y' = cursor_y /\ cursor_x' = SinglePass(CursorLine, cursor_x)
              ELSE IF cursor_y < Len(buffer) - 1
              THEN cursor_y' = cursor_y + 1 /\ cursor_x' = SinglePass(buffer[cursor_y + 2], 0)
              ELSE UNCHANGED <<cursor_x, cursor_y>>
      ]_vars

\* word-right has stopped at the start of the second word of "a a", with a
\* third run left to skip
C37_Witness ==
    /\ pc = "draw" /\ keys_handled = 1
    /\ buffer = << <<"a", " ", "a">> >>
    /\ cursor_y = 0 /\ cursor_x = 2
    /\ selection_start = <<0, 2>>

----------------------------------------------------------------------------
(* The frame of a save request *)

\* C36: Ctrl+W handled in Editing, in Insert mode and in Normal mode, whether
\* the write succeeds or fails, leaves the buffer, the cursor position, the
\* selection, the clipboard and the input mode unchanged
C36_SaveLeavesEditorState ==
    [][Editing => \A area \in Areas, write_ok \in BOOLEAN :
          KeyStep(CtrlW, area, write_ok) =>
              /\ pc' = "draw"
              /\ UNCHANGED <<buffer, cursor_x, cursor_y, selection_start,
                             selection_end, clipboard, input_mode>>
      ]_vars

====
